---------------------------- MODULE Spec2Model ----------------------------
(***************************************************************************)
(* The course-enrollment backend of src/project1.py: registration, login,  *)
(* refresh-token rotation, session resolution, the admin gate, user and    *)
(* course administration and the enrollment table.                         *)
(*                                                                         *)
(* The store is the SQLite file database.db, which outlives the process:   *)
(* Init ranges over the stores the process can be started on.  Every       *)
(* handler is one action.  The handlers whose check-then-act races are     *)
(* examined (register, enroll, unenroll) are also given split at the point *)
(* between their reads and their commit, the request in between being held *)
(* in inflight; the specifications SpecRegisterRace and SpecEnrollRace     *)
(* interleave them.                                                        *)
(***************************************************************************)
EXTENDS Integers, FiniteSets, Sequences, Bags, TLC

(***************************************************************************)
(* Program constants.                                                      *)
(***************************************************************************)
ACCESS_TOKEN_EXPIRE_MINUTES == 30

REFRESH_TOKEN_EXPIRE_DAYS == 10

MinutesPerDay == 1440

(***************************************************************************)
(* Bounds of the model.                                                    *)
(***************************************************************************)
MaxUserId == 3

MaxCourseId == 1

MaxInflight == 2

MaxTicks == 1

MaxAuthorId == 3

MaxMainId == 2

(***************************************************************************)
(* Request inputs.                                                         *)
(***************************************************************************)
Usernames == {"admin", "alice"}

Emails == {"admin@x", "alice@x"}

Passwords == {"pw1"}

\* A password no identity has.
WrongPassword == "wrong"

Titles == {"math"}

UserIds == 1..MaxUserId

CourseIds == 1..MaxCourseId

\* A claim a token's payload does not carry; a request field left out (None).
None == "<none>"

\* An argument a call does not pass.
Missing == "<missing>"

\* What an uncaught Python exception becomes: HTTP 500.
TypeError == "TypeError"

JWTError == "JWTError"

(***************************************************************************)
(* Passwords: pwd_context.hash / pwd_context.verify.  The digest is not    *)
(* the plaintext; verify accepts exactly the digests made of the plaintext.*)
(***************************************************************************)
password_hash(password) == <<"bcrypt", password>>

verify_password(plain_password, hashed_password) ==
    hashed_password = <<"bcrypt", plain_password>>

(***************************************************************************)
(* Tokens.  A JWT is its payload and whether its signature was made with   *)
(* SECRET_KEY; Garbage is a string that is no JWT at all.  Times are in    *)
(* minutes.                                                                *)
(***************************************************************************)
\* A string that is no JWT: jwt.decode cannot split it into three segments.
Garbage ==
    [sub |-> None, role |-> None, type |-> None, exp |-> 0, sig |-> "malformed"]

\* What a call gives: the exception it raised (None: it returned), its value.
Returned(value) == [raised |-> None, value |-> value]

Raised(exc) == [raised |-> exc, value |-> Garbage]

create_access_token(username, role, t) ==
    [sub |-> username, role |-> role, type |-> None,
     exp |-> t + ACCESS_TOKEN_EXPIRE_MINUTES, sig |-> "ok"]

create_refresh_token_RoleOptional(username, role, t) ==
    Returned([sub |-> username, role |-> IF role = Missing THEN None ELSE role,
              type |-> "refresh",
              exp |-> t + REFRESH_TOKEN_EXPIRE_DAYS * MinutesPerDay, sig |-> "ok"])

\* role is a required parameter: a call that does not pass it raises.
create_refresh_token(username, role, t) ==
    IF role = Missing
    THEN Raised(TypeError)
    ELSE Returned([sub |-> username, role |-> role, type |-> "refresh",
                   exp |-> t + REFRESH_TOKEN_EXPIRE_DAYS * MinutesPerDay,
                   sig |-> "ok"])

jwt_decode_NoExpiry(token, t) ==
    IF token.sig # "ok" THEN Raised(JWTError) ELSE Returned(token)

\* jose's jwt.decode: the payload, or JWTError for a string that is no JWT,
\* a signature not made with the key, or an exp before the current time.
jwt_decode(token, t) ==
    IF token.sig = "malformed" THEN Raised(JWTError)
    ELSE IF token.sig # "ok" THEN Raised(JWTError)
    ELSE IF token.exp < t THEN Raised(JWTError)
    ELSE Returned(token)

HTTPException(status, detail) == [status |-> status, detail |-> detail]

NoException == [status |-> 0, detail |-> None]

\* decode_token: the payload, or 401 for what jwt.decode rejects.
decode_token(token, t) ==
    LET r == jwt_decode(token, t) IN
    IF r.raised = JWTError
    THEN [exc |-> HTTPException(401, "Token is invalid"), payload |-> Garbage]
    ELSE [exc |-> NoException, payload |-> r.value]

(***************************************************************************)
(* The tokens a client may present: the access and the refresh token       *)
(* issued at time 0 to each username, tokens signed with the key whose     *)
(* payload has no subject, tokens signed with another key, and a string    *)
(* that is no token.                                                       *)
(***************************************************************************)
RoleAtIssue(username) == IF username = "admin" THEN "admin" ELSE "student"

IssuedTokens ==
    {create_access_token(u, RoleAtIssue(u), 0) : u \in Usernames}
    \cup {create_refresh_token(u, RoleAtIssue(u), 0).value : u \in Usernames}

Tokens ==
    IssuedTokens
    \cup {[t EXCEPT !.sub = None] : t \in {x \in IssuedTokens : x.sub = "alice"}}
    \cup {[t EXCEPT !.sig = "bad"] : t \in {x \in IssuedTokens : x.sub = "admin"}}
    \cup {Garbage}

\* The tokens sent as the bearer of an admin-gated request.
BearerTokens == {t \in Tokens : t.type # "refresh"}

VARIABLES
    users,        \* table users: records id, username, email, hashed_password, role
    courses,      \* table courses: records id, title, teacher_id
    enrollments,  \* table enrollments: a bag of rows <<user_id, course_id>>
    ledger,       \* table refresh_tokens
    inflight,     \* the bag of requests that passed their checks and have not committed
    now,          \* datetime.utcnow(), in minutes
    ticks,        \* how often the clock has advanced
    resp,         \* the last response sent
    deleted_ids,  \* history: the ids of the identities deleted so far
    authors,      \* authors backend, table authors: records id, name, email
    main_users,   \* orders backend, table users: records id, name, email
    products,     \* orders backend, table products: records id, name, price
    orders        \* orders backend, table orders: records id, user_id, product_id, quantity

vars ==
    <<users, courses, enrollments, ledger, inflight, now, ticks, resp,
      deleted_ids, authors, main_users, products, orders>>

\* The stores of the other two backends.
elsewhere == <<authors, main_users, products, orders>>

store == <<users, courses, enrollments, ledger>>

(***************************************************************************)
(* Tables and their constraints.                                           *)
(***************************************************************************)
Max(S) == CHOOSE x \in S : \A y \in S : y <= x

\* SQLite's INTEGER PRIMARY KEY without AUTOINCREMENT: one more than the
\* largest id in the table.
NextId(table) == IF table = {} THEN 1 ELSE Max({r.id : r \in table}) + 1

\* class User: id is the primary key, username and email are unique=True.
UsersConstraint_NoUnique(us) ==
    \A a, b \in us : a.id = b.id => a = b

UsersConstraint(us) ==
    \A a, b \in us :
        (a.id = b.id \/ a.username = b.username \/ a.email = b.email) => a = b

\* class RefreshTokenDB: id is the primary key, token is unique=True.
LedgerConstraint(rows) ==
    \A a, b \in rows : (a.id = b.id \/ a.token = b.token) => a = b

\* db.query(...).filter(...): the matching rows; .first() is None when there
\* are none (Found is false) and a matching row otherwise.
Found(rows) == rows # {}

First(rows) == CHOOSE r \in rows : TRUE

UsersByName(username) == {u \in users : u.username = username}

UsersByEmail(email) == {u \in users : u.email = email}

UsersById(user_id) == {u \in users : u.id = user_id}

CoursesById(course_id) == {c \in courses : c.id = course_id}

TokenRows_BySubject(token) == {r \in ledger : r.token.sub = token.sub}

\* filter_by(token=data.refresh_token): the rows holding exactly this string.
TokenRows(token) == {r \in ledger : r.token = token}

\* A response: the handler, the status code, the detail of the exception
\* raised ("OK" when none was), and what the body identifies.
Response(op, status, detail, body) ==
    [op |-> op, status |-> status, detail |-> detail, body |-> body]

NoBody == [access_token |-> Garbage, refresh_token |-> Garbage, id |-> 0]

\* TokenResponse: the pair of tokens.
TokenBody(access_token, refresh_token) ==
    [access_token |-> access_token, refresh_token |-> refresh_token, id |-> 0]

\* UserOut / CourseOut: the id of the record returned.
RecordBody(record) ==
    [access_token |-> Garbage, refresh_token |-> Garbage, id |-> record.id]

OK(op, body) == Response(op, 200, "OK", body)

Raise(op, exc) == Response(op, exc.status, exc.detail, NoBody)

\* An exception no handler catches.
ServerError(op) == Response(op, 500, "Internal Server Error", NoBody)

(***************************************************************************)
(* The stores the process can be started on.                               *)
(***************************************************************************)
SeedAdmin ==
    [id |-> 1, username |-> "admin", email |-> "admin@x",
     hashed_password |-> password_hash("pw1"), role |-> "admin"]

SeedAlice ==
    [id |-> 2, username |-> "alice", email |-> "alice@x",
     hashed_password |-> password_hash("pw1"), role |-> "student"]

SeedRow(user) ==
    [id |-> user.id, user_id |-> user.id,
     token |-> create_refresh_token(user.username, user.role, 0).value,
     user_role |-> user.role, created_at |-> 0,
     expires_at |-> REFRESH_TOKEN_EXPIRE_DAYS * MinutesPerDay]

Init ==
    /\ users \in {{}, {SeedAdmin}, {SeedAdmin, SeedAlice}}
    /\ ledger \in SUBSET {SeedRow(u) : u \in users}
    /\ courses = {}
    /\ enrollments = EmptyBag
    /\ inflight = EmptyBag
    /\ now = 0
    /\ ticks = 0
    /\ resp = Response("none", 0, None, NoBody)
    /\ deleted_ids = {}
    /\ authors = {}
    /\ main_users = {}
    /\ products = {}
    /\ orders = {}

(***************************************************************************)
(* Session resolution and the admin gate.                                  *)
(***************************************************************************)
NoUser ==
    [id |-> 0, username |-> None, email |-> None,
     hashed_password |-> password_hash(None), role |-> None]

get_current_user(token) ==
    LET d == decode_token(token, now) IN
    IF d.exc.status # 0
    THEN [exc |-> d.exc, user |-> NoUser]
    ELSE IF d.payload.sub = None
    THEN [exc |-> HTTPException(400, "Invalid token."), user |-> NoUser]
    ELSE IF ~Found(UsersByName(d.payload.sub))
    THEN [exc |-> HTTPException(404, "User not found."), user |-> NoUser]
    ELSE [exc |-> NoException, user |-> First(UsersByName(d.payload.sub))]

require_admin_AnyRole(token) == get_current_user(token)

require_admin(token) ==
    LET c == get_current_user(token) IN
    IF c.exc.status # 0 THEN c
    ELSE IF c.user.role # "admin"
    THEN [exc |-> HTTPException(403, "You are not an admin."), user |-> NoUser]
    ELSE c

(***************************************************************************)
(* A request between its checks and its commit.                            *)
(***************************************************************************)
Request(op, username, email, password, user_id, course_id) ==
    [op |-> op, username |-> username, email |-> email,
     password |-> password, user_id |-> user_id, course_id |-> course_id]

\* Whether one more request can be held.
CanHold == BagCardinality(inflight) < MaxInflight

Hold(request) == inflight (+) SetToBag({request})

Release(request) == inflight (-) SetToBag({request})

Held == BagToSet(inflight)

(***************************************************************************)
(* POST /users/register.                                                   *)
(***************************************************************************)
\* AuthService.register_user, its two lookups: the exception they raise.
register_user_check_UsernameOnly(username, email) ==
    IF Found(UsersByName(username))
    THEN HTTPException(400, "Username already in use.")
    ELSE NoException

register_user_check(username, email) ==
    IF Found(UsersByName(username))
    THEN HTTPException(400, "Username already in use.")
    ELSE IF Found(UsersByEmail(email))
    THEN HTTPException(400, "Email already in use.")
    ELSE NoException

register_user_insert_FirstIsAdmin(username, email, password) ==
    LET new_user == [id |-> NextId(users), username |-> username,
                     email |-> email,
                     hashed_password |-> password_hash(password),
                     role |-> IF users = {} THEN "admin" ELSE "student"]
    IN IF UsersConstraint(users \cup {new_user})
       THEN [raised |-> None, rows |-> users \cup {new_user}, new_user |-> new_user]
       ELSE [raised |-> "IntegrityError", rows |-> users, new_user |-> NoUser]

\* AuthService.register_user, db.add and db.commit: the role stored is
\* "student"; IntegrityError when the row breaks a constraint of the table.
register_user_insert(username, email, password) ==
    LET new_user == [id |-> NextId(users), username |-> username,
                     email |-> email,
                     hashed_password |-> password_hash(password),
                     role |-> "student"]
    IN IF UsersConstraint(users \cup {new_user})
       THEN [raised |-> None, rows |-> users \cup {new_user}, new_user |-> new_user]
       ELSE [raised |-> "IntegrityError", rows |-> users, new_user |-> NoUser]

register(username, email, password) ==
    LET exc == register_user_check(username, email)
        inserted == register_user_insert(username, email, password)
    IN
    /\ NextId(users) <= MaxUserId
    /\ IF exc.status # 0
       THEN /\ resp' = Raise("register", exc)
            /\ UNCHANGED users
       ELSE IF inserted.raised # None
       THEN /\ resp' = ServerError("register")
            /\ UNCHANGED users
       ELSE /\ users' = inserted.rows
            /\ resp' = OK("register", RecordBody(inserted.new_user))
    /\ UNCHANGED <<courses, enrollments, ledger, inflight, now, ticks, deleted_ids, elsewhere>>

\* The request bodies of POST /users/register: CreateUser has a role.
Roles == {"student", "admin"}

CreateUser == [username : Usernames, email : Emails, password : Passwords, role : Roles]

\* The handler: it passes the body's username, email and password on.
register_request(user) == register(user.username, user.email, user.password)

\* The handler up to its commit: the request is held when its checks pass.
register_begin(username, email, password) ==
    LET exc == register_user_check(username, email) IN
    /\ CanHold
    /\ NextId(users) + BagCardinality(inflight) <= MaxUserId
    /\ IF exc.status # 0
       THEN /\ resp' = Raise("register", exc)
            /\ UNCHANGED inflight
       ELSE /\ inflight' = Hold(Request("register", username, email, password, 0, 0))
            /\ UNCHANGED resp
    /\ UNCHANGED <<users, courses, enrollments, ledger, now, ticks, deleted_ids, elsewhere>>

\* The commit of a held request, on the store as it is by then.
register_commit(r) ==
    LET inserted == register_user_insert(r.username, r.email, r.password) IN
    /\ r.op = "register"
    /\ inflight' = Release(r)
    /\ users' = inserted.rows
    /\ resp' = IF inserted.raised # None
               THEN ServerError("register")
               ELSE OK("register", RecordBody(inserted.new_user))
    /\ UNCHANGED <<courses, enrollments, ledger, now, ticks, deleted_ids, elsewhere>>

(***************************************************************************)
(* POST /users/login.                                                      *)
(***************************************************************************)
\* save_refresh_token: the ledger with the row added; IntegrityError when
\* the token is already in it.
save_refresh_token(rows, user, refresh_token, t) ==
    LET refresh == [id |-> NextId(rows), user_id |-> user.id,
                    token |-> refresh_token, user_role |-> user.role,
                    created_at |-> t,
                    expires_at |-> t + REFRESH_TOKEN_EXPIRE_DAYS * MinutesPerDay]
    IN IF LedgerConstraint(rows \cup {refresh})
       THEN [raised |-> None, rows |-> rows \cup {refresh}]
       ELSE [raised |-> "IntegrityError", rows |-> rows]

\* AuthService.login_user: whether it raises 400.
login_user_fails(username, password) ==
    \/ ~Found(UsersByName(username))
    \/ ~verify_password(password, First(UsersByName(username)).hashed_password)

login(username, password) ==
    /\ IF login_user_fails(username, password)
       THEN /\ resp' = Raise("login", HTTPException(400, "Incorrect password."))
            /\ UNCHANGED ledger
       ELSE LET user == First(UsersByName(username))
                access_token == create_access_token(user.username, user.role, now)
                \* create_refresh_token(username=user.username): no role
                refresh_token == create_refresh_token(user.username, Missing, now)
                saved == save_refresh_token(ledger, user, refresh_token.value, now)
            IN IF refresh_token.raised # None
               THEN /\ resp' = ServerError("login")
                    /\ UNCHANGED ledger
               ELSE IF saved.raised # None
               THEN /\ resp' = ServerError("login")
                    /\ UNCHANGED ledger
               ELSE /\ ledger' = saved.rows
                    /\ resp' = OK("login", TokenBody(access_token, refresh_token.value))
    /\ UNCHANGED <<users, courses, enrollments, inflight, now, ticks, deleted_ids, elsewhere>>

(***************************************************************************)
(* POST /users/refresh.                                                    *)
(***************************************************************************)
\* The handler's try block: the exception that leaves it.
refresh_decode(token) ==
    LET decoded == jwt_decode(token, now) IN
    IF decoded.raised = JWTError
    THEN HTTPException(400, "Invalid token.")
    ELSE IF decoded.value.sub = None
    THEN HTTPException(400, "Invalid token.")
    ELSE NoException

refresh(token) ==
    LET exc == refresh_decode(token)
        username == token.sub
    IN
    /\ IF exc.status # 0
       THEN /\ resp' = Raise("refresh", exc)
            /\ UNCHANGED ledger
       ELSE IF ~Found(TokenRows(token))
       THEN /\ resp' = Raise("refresh", HTTPException(404, "Token not found."))
            /\ UNCHANGED ledger
       ELSE IF ~Found(UsersByName(username))
       THEN /\ resp' = Raise("refresh", HTTPException(404, "User not found."))
            /\ UNCHANGED ledger
       ELSE LET db_token == First(TokenRows(token))
                user == First(UsersByName(username))
                access_token == create_access_token(user.username, user.role, now)
                \* create_refresh_token(username=user.username): no role
                refresh_token == create_refresh_token(user.username, Missing, now)
                saved == save_refresh_token(ledger, user, refresh_token.value, now)
            IN IF refresh_token.raised # None
               THEN /\ resp' = ServerError("refresh")
                    /\ UNCHANGED ledger
               ELSE IF saved.raised # None
               THEN /\ resp' = ServerError("refresh")
                    /\ UNCHANGED ledger
               ELSE /\ ledger' = saved.rows \ {db_token}
                    /\ resp' = OK("refresh", TokenBody(access_token, refresh_token.value))
    /\ UNCHANGED <<users, courses, enrollments, inflight, now, ticks, deleted_ids, elsewhere>>

(***************************************************************************)
(* POST /users/refresh, one store access after the other.  The handler      *)
(* reads the ledger row, reads the identity, commits the new row            *)
(* (save_refresh_token) and then commits the deletion of the row it read:   *)
(* other requests run between any two of these.                             *)
(***************************************************************************)
RotateRequest(stage, token, db_token, access_token, refresh_token) ==
    [op |-> "refresh", stage |-> stage, token |-> token, db_token |-> db_token,
     access_token |-> access_token, refresh_token |-> refresh_token]

\* Lines 461-470: the token is decoded and its ledger row read.
refresh_begin(token) ==
    LET exc == refresh_decode(token) IN
    /\ CanHold
    /\ IF exc.status # 0
       THEN /\ resp' = Raise("refresh", exc)
            /\ UNCHANGED inflight
       ELSE IF ~Found(TokenRows(token))
       THEN /\ resp' = Raise("refresh", HTTPException(404, "Token not found."))
            /\ UNCHANGED inflight
       ELSE /\ inflight' = Hold(RotateRequest("found", token, First(TokenRows(token)),
                                              Garbage, Garbage))
            /\ UNCHANGED resp
    /\ UNCHANGED <<users, courses, enrollments, ledger, now, ticks, deleted_ids, elsewhere>>

\* Lines 471-476: the identity is read, the tokens are made and the new row
\* is committed.
refresh_save(r) ==
    LET username == r.token.sub IN
    IF ~Found(UsersByName(username))
    THEN /\ resp' = Raise("refresh", HTTPException(404, "User not found."))
         /\ inflight' = Release(r)
         /\ UNCHANGED ledger
    ELSE LET user == First(UsersByName(username))
             access_token == create_access_token(user.username, user.role, now)
             \* create_refresh_token(username=user.username): no role
             refresh_token == create_refresh_token(user.username, Missing, now)
             saved == save_refresh_token(ledger, user, refresh_token.value, now)
         IN IF refresh_token.raised # None \/ saved.raised # None
            THEN /\ resp' = ServerError("refresh")
                 /\ inflight' = Release(r)
                 /\ UNCHANGED ledger
            ELSE /\ ledger' = saved.rows
                 /\ inflight' = Release(r) (+)
                        SetToBag({RotateRequest("saved", r.token, r.db_token,
                                                access_token, refresh_token.value)})
                 /\ UNCHANGED resp

\* Lines 477-478: the row read at the start is deleted and the deletion
\* committed; a row that is gone by then makes the DELETE match nothing.
refresh_delete(r) ==
    /\ ledger' = ledger \ {r.db_token}
    /\ inflight' = Release(r)
    /\ resp' = OK("refresh", TokenBody(r.access_token, r.refresh_token))

\* The next store access of a held rotate request.
refresh_resume(r) ==
    /\ r.op = "refresh"
    /\ IF r.stage = "found" THEN refresh_save(r) ELSE refresh_delete(r)
    /\ UNCHANGED <<users, courses, enrollments, now, ticks, deleted_ids, elsewhere>>

(***************************************************************************)
(* GET /users/me.                                                          *)
(***************************************************************************)
get_me(token) ==
    LET current == get_current_user(token) IN
    /\ resp' = IF current.exc.status # 0
               THEN Raise("get_me", current.exc)
               ELSE OK("get_me", RecordBody(current.user))
    /\ UNCHANGED <<users, courses, enrollments, ledger, inflight, now, ticks, deleted_ids, elsewhere>>

(***************************************************************************)
(* The clock.                                                              *)
(***************************************************************************)
TickSteps ==
    {ACCESS_TOKEN_EXPIRE_MINUTES + 1,
     REFRESH_TOKEN_EXPIRE_DAYS * MinutesPerDay + 1}

Tick ==
    /\ ticks < MaxTicks
    /\ \E d \in TickSteps : now' = now + d
    /\ ticks' = ticks + 1
    /\ UNCHANGED <<users, courses, enrollments, ledger, inflight, resp, deleted_ids, elsewhere>>

(***************************************************************************)
(* User administration: GET /users, GET/PUT/DELETE /users/{user_id}.       *)
(***************************************************************************)
read_users(token) ==
    LET gate == require_admin(token) IN
    /\ resp' = IF gate.exc.status # 0
               THEN Raise("read_users", gate.exc)
               ELSE OK("read_users", NoBody)
    /\ UNCHANGED <<users, courses, enrollments, ledger, inflight, now, ticks, deleted_ids, elsewhere>>

read_user(token, user_id) ==
    LET gate == require_admin(token) IN
    /\ resp' = IF gate.exc.status # 0
               THEN Raise("read_user", gate.exc)
               ELSE IF ~Found(UsersById(user_id))
               THEN Raise("read_user", HTTPException(404, "User not found."))
               ELSE OK("read_user", RecordBody(First(UsersById(user_id))))
    /\ UNCHANGED <<users, courses, enrollments, ledger, inflight, now, ticks, deleted_ids, elsewhere>>

\* UserService.update_user on a row found: the row as the commit writes it.
UserService_update_user(obj, data) ==
    [obj EXCEPT
        !.username = IF data.username # None THEN data.username ELSE @,
        !.email = IF data.email # None THEN data.email ELSE @,
        !.hashed_password = IF data.password # None
                            THEN password_hash(data.password) ELSE @]

update_user(token, user_id, data) ==
    LET gate == require_admin(token) IN
    /\ IF gate.exc.status # 0
       THEN /\ resp' = Raise("update_user", gate.exc)
            /\ UNCHANGED users
       ELSE IF ~Found(UsersById(user_id))
       THEN /\ resp' = Raise("update_user", HTTPException(404, "User not found."))
            /\ UNCHANGED users
       ELSE LET obj == First(UsersById(user_id))
                new == UserService_update_user(obj, data)
            IN IF UsersConstraint((users \ {obj}) \cup {new})
               THEN /\ users' = (users \ {obj}) \cup {new}
                    /\ resp' = OK("update_user", RecordBody(new))
               ELSE \* IntegrityError at the commit: nothing is written
                    /\ UNCHANGED users
                    /\ resp' = ServerError("update_user")
    /\ UNCHANGED <<courses, enrollments, ledger, inflight, now, ticks, deleted_ids, elsewhere>>

\* A NULL foreign key.
NullId == 0

\* The rows of table enrollments among the given ones.
EnrollmentsWhere(rows) == [e \in rows |-> enrollments[e]]

\* UserService.delete_user on a row found: the ORM deletes the user's rows
\* of the secondary table and nulls teacher_id of the courses the user
\* teaches; refresh_tokens is not touched.
delete_users(token, user_id) ==
    LET gate == require_admin(token) IN
    /\ IF gate.exc.status # 0
       THEN /\ resp' = Raise("delete_users", gate.exc)
            /\ UNCHANGED <<users, courses, enrollments>>
       ELSE IF ~Found(UsersById(user_id))
       THEN /\ resp' = Raise("delete_users", HTTPException(404, "User not found."))
            /\ UNCHANGED <<users, courses, enrollments>>
       ELSE LET obj == First(UsersById(user_id)) IN
            /\ users' = users \ {obj}
            /\ enrollments' = EnrollmentsWhere({e \in BagToSet(enrollments) : e[1] # obj.id})
            /\ courses' = {IF c.teacher_id = obj.id
                           THEN [c EXCEPT !.teacher_id = NullId] ELSE c
                           : c \in courses}
            /\ resp' = OK("delete_users", RecordBody(obj))
    /\ UNCHANGED <<ledger, inflight, now, ticks, elsewhere>>

(***************************************************************************)
(* Course administration: POST /courses, PUT/DELETE /courses/{course_id}.  *)
(***************************************************************************)
create_course(token, title, teacher_id) ==
    LET gate == require_admin(token)
        new_course == [id |-> NextId(courses), title |-> title,
                       teacher_id |-> teacher_id]
    IN
    /\ NextId(courses) <= MaxCourseId
    /\ IF gate.exc.status # 0
       THEN /\ resp' = Raise("create_course", gate.exc)
            /\ UNCHANGED courses
       ELSE IF ~Found(UsersById(teacher_id))
       THEN /\ resp' = Raise("create_course", HTTPException(404, "Teacher not found."))
            /\ UNCHANGED courses
       ELSE IF Found({c \in courses : c.title = title /\ c.teacher_id = teacher_id})
       THEN /\ resp' = Raise("create_course", HTTPException(400, "Course already exists."))
            /\ UNCHANGED courses
       ELSE /\ courses' = courses \cup {new_course}
            /\ resp' = OK("create_course", RecordBody(new_course))
    /\ UNCHANGED <<users, enrollments, ledger, inflight, now, ticks, deleted_ids, elsewhere>>

update_course(token, course_id, title) ==
    LET gate == require_admin(token) IN
    /\ IF gate.exc.status # 0
       THEN /\ resp' = Raise("update_course", gate.exc)
            /\ UNCHANGED courses
       ELSE IF ~Found(CoursesById(course_id))
       THEN /\ resp' = Raise("update_course", HTTPException(404, "Course not found."))
            /\ UNCHANGED courses
       ELSE LET obj == First(CoursesById(course_id))
                new == [obj EXCEPT !.title = IF title # None THEN title ELSE @]
            IN /\ courses' = (courses \ {obj}) \cup {new}
               /\ resp' = OK("update_course", RecordBody(new))
    /\ UNCHANGED <<users, enrollments, ledger, inflight, now, ticks, deleted_ids, elsewhere>>

\* CourseService.delete_course: the ORM deletes the course's rows of the
\* secondary table with it.
delete_courses(token, course_id) ==
    LET gate == require_admin(token) IN
    /\ IF gate.exc.status # 0
       THEN /\ resp' = Raise("delete_courses", gate.exc)
            /\ UNCHANGED <<courses, enrollments>>
       ELSE IF ~Found(CoursesById(course_id))
       THEN /\ resp' = Raise("delete_courses", HTTPException(404, "Course not found."))
            /\ UNCHANGED <<courses, enrollments>>
       ELSE LET obj == First(CoursesById(course_id)) IN
            /\ courses' = courses \ {obj}
            /\ enrollments' = EnrollmentsWhere({e \in BagToSet(enrollments) : e[2] # obj.id})
            /\ resp' = OK("delete_courses", RecordBody(obj))
    /\ UNCHANGED <<users, ledger, inflight, now, ticks, deleted_ids, elsewhere>>

(***************************************************************************)
(* Enrollment: POST/DELETE /courses/{course_id}/enroll?user_id=.           *)
(***************************************************************************)
\* course.students: the users the secondary table links to the course.
students(course_id) ==
    {e[1] : e \in {x \in BagToSet(enrollments) : x[2] = course_id}}

\* Table enrollments: (user_id, course_id) is the primary key.  What the
\* INSERT of a pair gives.
EnrollmentsInsert_NoKey(pair) ==
    [raised |-> None, rows |-> enrollments (+) SetToBag({pair})]

EnrollmentsInsert(pair) ==
    IF BagIn(pair, enrollments)
    THEN [raised |-> "IntegrityError", rows |-> enrollments]
    ELSE [raised |-> None, rows |-> enrollments (+) SetToBag({pair})]

\* What the DELETE of a pair gives: the ORM raises StaleDataError when the
\* statement matches no row.
EnrollmentsDelete(pair) ==
    IF ~BagIn(pair, enrollments)
    THEN [raised |-> "StaleDataError", rows |-> enrollments]
    ELSE [raised |-> None, rows |-> enrollments (-) SetToBag({pair})]

\* add_user_to_course up to course.students.append: the exception raised.
add_user_to_course_check(token, course_id, user_id) ==
    LET gate == require_admin(token) IN
    IF gate.exc.status # 0 THEN gate.exc
    ELSE IF ~Found(CoursesById(course_id))
    THEN HTTPException(404, "Course not found.")
    ELSE IF ~Found(UsersById(user_id))
    THEN HTTPException(404, "User not found.")
    ELSE IF user_id \in students(course_id)
    THEN HTTPException(401, "User is already enrolled.")
    ELSE NoException

\* delete_user_from_course up to course.students.remove: the exception raised.
delete_user_from_course_check(token, course_id, user_id) ==
    LET gate == require_admin(token) IN
    IF gate.exc.status # 0 THEN gate.exc
    ELSE IF ~Found(CoursesById(course_id))
    THEN HTTPException(404, "Course not found.")
    ELSE IF ~Found(UsersById(user_id))
    THEN HTTPException(404, "User not found.")
    ELSE IF user_id \notin students(course_id)
    THEN HTTPException(401, "User not found")
    ELSE NoException

\* course.students.append(user); db.commit(); db.refresh(course); return user
add_user_to_course_write(course_id, user_id) ==
    LET inserted == EnrollmentsInsert(<<user_id, course_id>>) IN
    /\ enrollments' = inserted.rows
    /\ resp' = IF inserted.raised # None
               THEN ServerError("add_user_to_course")
               ELSE IF ~Found(CoursesById(course_id))
               THEN \* db.refresh of a row that is gone
                    ServerError("add_user_to_course")
               ELSE OK("add_user_to_course", [NoBody EXCEPT !.id = user_id])

\* course.students.remove(user); db.commit(); db.refresh(course); return user
delete_user_from_course_write(course_id, user_id) ==
    LET deleted == EnrollmentsDelete(<<user_id, course_id>>) IN
    /\ enrollments' = deleted.rows
    /\ resp' = IF deleted.raised # None
               THEN ServerError("delete_user_from_course")
               ELSE IF ~Found(CoursesById(course_id))
               THEN ServerError("delete_user_from_course")
               ELSE OK("delete_user_from_course", [NoBody EXCEPT !.id = user_id])

add_user_to_course(token, course_id, user_id) ==
    LET exc == add_user_to_course_check(token, course_id, user_id) IN
    /\ IF exc.status # 0
       THEN /\ resp' = Raise("add_user_to_course", exc)
            /\ UNCHANGED enrollments
       ELSE add_user_to_course_write(course_id, user_id)
    /\ UNCHANGED <<users, courses, ledger, inflight, now, ticks, deleted_ids, elsewhere>>

delete_user_from_course(token, course_id, user_id) ==
    LET exc == delete_user_from_course_check(token, course_id, user_id) IN
    /\ IF exc.status # 0
       THEN /\ resp' = Raise("delete_user_from_course", exc)
            /\ UNCHANGED enrollments
       ELSE delete_user_from_course_write(course_id, user_id)
    /\ UNCHANGED <<users, courses, ledger, inflight, now, ticks, deleted_ids, elsewhere>>

\* The handlers up to their commit, and the commit of a held request on the
\* store as it is by then.
add_user_to_course_begin(token, course_id, user_id) ==
    LET exc == add_user_to_course_check(token, course_id, user_id) IN
    /\ CanHold
    /\ IF exc.status # 0
       THEN /\ resp' = Raise("add_user_to_course", exc)
            /\ UNCHANGED inflight
       ELSE /\ inflight' = Hold(Request("add_user_to_course", None, None, None,
                                        user_id, course_id))
            /\ UNCHANGED resp
    /\ UNCHANGED <<users, courses, enrollments, ledger, now, ticks, deleted_ids, elsewhere>>

add_user_to_course_commit(r) ==
    /\ r.op = "add_user_to_course"
    /\ inflight' = Release(r)
    /\ add_user_to_course_write(r.course_id, r.user_id)
    /\ UNCHANGED <<users, courses, ledger, now, ticks, deleted_ids, elsewhere>>

delete_user_from_course_begin(token, course_id, user_id) ==
    LET exc == delete_user_from_course_check(token, course_id, user_id) IN
    /\ CanHold
    /\ IF exc.status # 0
       THEN /\ resp' = Raise("delete_user_from_course", exc)
            /\ UNCHANGED inflight
       ELSE /\ inflight' = Hold(Request("delete_user_from_course", None, None, None,
                                        user_id, course_id))
            /\ UNCHANGED resp
    /\ UNCHANGED <<users, courses, enrollments, ledger, now, ticks, deleted_ids, elsewhere>>

delete_user_from_course_commit(r) ==
    /\ r.op = "delete_user_from_course"
    /\ inflight' = Release(r)
    /\ delete_user_from_course_write(r.course_id, r.user_id)
    /\ UNCHANGED <<users, courses, ledger, now, ticks, deleted_ids, elsewhere>>

(***************************************************************************)
(* The specifications.                                                     *)
(***************************************************************************)
\* The bodies PUT /users/{user_id} is sent: no field, one field, or the
\* username and the email together.
UpdateUserData ==
    {d \in [username : Usernames \cup {None}, email : Emails \cup {None},
            password : Passwords \cup {None}] :
        d.password # None => (d.username = None /\ d.email = None)}

\* A request the gate rejects does not reach its handler: one value of its
\* other inputs stands for them all.
Gated(token, inputs) ==
    IF require_admin(token).exc.status = 0
    THEN inputs
    ELSE {CHOOSE x \in inputs : TRUE}

UserAdmin ==
    \/ \E t \in BearerTokens : read_users(t)
    \/ \E t \in BearerTokens : \E i \in Gated(t, UserIds) : read_user(t, i)
    \/ \E t \in BearerTokens : \E i \in Gated(t, UserIds), d \in Gated(t, UpdateUserData) :
            update_user(t, i, d)
    \/ \E t \in BearerTokens : \E i \in Gated(t, UserIds) :
            delete_users(t, i) /\ UNCHANGED deleted_ids

CourseAdmin ==
    \/ \E t \in BearerTokens : \E ti \in Gated(t, Titles), i \in Gated(t, UserIds) :
            create_course(t, ti, i)
    \/ \E t \in BearerTokens : \E c \in Gated(t, CourseIds), ti \in Gated(t, Titles \cup {None}) :
            update_course(t, c, ti)
    \/ \E t \in BearerTokens : \E c \in Gated(t, CourseIds) : delete_courses(t, c)

\* The authentication subsystem, each handler one step.
Next ==
    \/ \E u \in Usernames, e \in Emails, p \in Passwords : register(u, e, p)
    \/ \E u \in Usernames, p \in Passwords \cup {WrongPassword} : login(u, p)
    \/ \E t \in Tokens : refresh(t)
    \/ \E t \in Tokens : get_me(t)
    \/ UserAdmin
    \/ Tick

Spec == Init /\ [][Next]_vars

\* A store whose refresh_tokens table is empty.
InitNoLedger == Init /\ ledger = {}

\* Registrations racing with each other and with user administration.
NextRegisterRace ==
    \/ \E u \in Usernames, e \in Emails, p \in Passwords : register_begin(u, e, p)
    \/ \E r \in Held : register_commit(r)
    \/ UserAdmin

SpecRegisterRace == InitNoLedger /\ [][NextRegisterRace]_vars

\* The admin-gated operations, each handler one step.
NextCourses ==
    \/ UserAdmin
    \/ CourseAdmin
    \/ \E t \in BearerTokens : \E c \in Gated(t, CourseIds), i \in Gated(t, UserIds) :
            add_user_to_course(t, c, i)
    \/ \E t \in BearerTokens : \E c \in Gated(t, CourseIds), i \in Gated(t, UserIds) :
            delete_user_from_course(t, c, i)

SpecCourses == InitNoLedger /\ [][NextCourses]_vars

\* Registrations with any role in the body, and the admin-gated operations.
NextRoles ==
    \/ \E user \in CreateUser : register_request(user)
    \/ NextCourses

SpecRoles == InitNoLedger /\ [][NextRoles]_vars

\* The identities the issued tokens were issued to.
Seeds == {SeedAdmin, SeedAlice}

\* A store that holds them both.
InitSeeds == Init /\ users = Seeds

\* The history of a step: the ids that left table users.
RecordDeleted ==
    deleted_ids' = deleted_ids \cup ({u.id : u \in users} \ {u.id : u \in users'})

\* Identities deleted and usernames taken again, deleted_ids recording the
\* deletions.
NextReuse ==
    \/ \E u \in Usernames, e \in Emails, p \in Passwords : register(u, e, p)
    \/ \E t \in Tokens : refresh(t)
    \/ \E t \in Tokens : get_me(t)
    \/ \E t \in BearerTokens : \E i \in Gated(t, UserIds), d \in Gated(t, UpdateUserData) :
            update_user(t, i, d)
    \/ \E t \in BearerTokens : \E i \in Gated(t, UserIds) :
            delete_users(t, i) /\ RecordDeleted

SpecReuse == InitSeeds /\ [][NextReuse]_vars

\* Enrollment requests racing with each other and with the creation and
\* deletion of courses.
NextEnrollRace ==
    \/ \E t \in BearerTokens : \E c \in Gated(t, CourseIds), i \in Gated(t, UserIds) :
            add_user_to_course_begin(t, c, i)
    \/ \E r \in Held : add_user_to_course_commit(r)
    \/ \E t \in BearerTokens : \E c \in Gated(t, CourseIds), i \in Gated(t, UserIds) :
            delete_user_from_course_begin(t, c, i)
    \/ \E r \in Held : delete_user_from_course_commit(r)
    \/ \E t \in BearerTokens : \E ti \in Gated(t, Titles), i \in Gated(t, UserIds) :
            create_course(t, ti, i)
    \/ \E t \in BearerTokens : \E c \in Gated(t, CourseIds) : delete_courses(t, c)

SpecEnrollRace == InitNoLedger /\ [][NextEnrollRace]_vars

\* Rotate requests racing with each other, with the deletion of identities
\* and with the clock.
NextRotateRace ==
    \/ \E t \in Tokens : refresh_begin(t)
    \/ \E r \in Held : refresh_resume(r)
    \/ \E t \in BearerTokens : \E i \in Gated(t, UserIds) :
            delete_users(t, i) /\ UNCHANGED deleted_ids
    \/ Tick

SpecRotateRace == Init /\ [][NextRotateRace]_vars

(***************************************************************************)
(* The authors backend, src/FastApi(DATABASE+relashionship)).py: the        *)
(* handlers of table authors.  The table has no constraint but its primary *)
(* key.                                                                    *)
(***************************************************************************)
\* The stores and the clock of the course backend.
coursework ==
    <<users, courses, enrollments, ledger, inflight, now, ticks, deleted_ids>>

AuthorNames == {"ann", "bob"}

AuthorEmails == {"ann@x", "bob@x"}

AuthorIds == 1..MaxAuthorId

AuthorsById(author_id) == {a \in authors : a.id = author_id}

AuthorsByEmail(email) == {a \in authors : a.email = email}

\* POST /authors
create_authors(name, email) ==
    /\ NextId(authors) <= MaxAuthorId
    /\ IF Found(AuthorsByEmail(email))
       THEN /\ resp' = Raise("create_authors",
                               HTTPException(400, "Email already registered"))
            /\ UNCHANGED authors
       ELSE LET new_author == [id |-> NextId(authors), name |-> name, email |-> email]
            IN /\ authors' = authors \cup {new_author}
               /\ resp' = OK("create_authors", RecordBody(new_author))
    /\ UNCHANGED <<coursework, main_users, products, orders>>

\* The query of lines 129-130: the other authors with this name and email.
update_author_conflict(author_id, name, email) ==
    {a \in authors : a.name = name /\ a.email = email /\ a.id # author_id}

\* PUT /authors/{author_id}
update_author(author_id, name, email) ==
    /\ IF ~Found(AuthorsById(author_id))
       THEN /\ resp' = Raise("update_author", HTTPException(404, "Author not found"))
            /\ UNCHANGED authors
       ELSE IF Found(update_author_conflict(author_id, name, email))
       THEN /\ resp' = Raise("update_author",
                               HTTPException(400, "Email already registered"))
            /\ UNCHANGED authors
       ELSE LET put_author == First(AuthorsById(author_id))
                updated == [put_author EXCEPT !.name = name, !.email = email]
            IN /\ authors' = (authors \ {put_author}) \cup {updated}
               /\ resp' = OK("update_author", RecordBody(updated))
    /\ UNCHANGED <<coursework, main_users, products, orders>>

\* DELETE /authors/{author_id}
delete_authors(author_id) ==
    /\ IF ~Found(AuthorsById(author_id))
       THEN /\ resp' = Raise("delete_authors", HTTPException(404, "Author not found"))
            /\ UNCHANGED authors
       ELSE /\ authors' = authors \ AuthorsById(author_id)
            /\ resp' = OK("delete_authors", NoBody)
    /\ UNCHANGED <<coursework, main_users, products, orders>>

\* The course backend's store empty: the store the other backends start on.
InitEmpty == Init /\ users = {}

NextAuthors ==
    \/ \E n \in AuthorNames, e \in AuthorEmails : create_authors(n, e)
    \/ \E i \in AuthorIds, n \in AuthorNames, e \in AuthorEmails : update_author(i, n, e)
    \/ \E i \in AuthorIds : delete_authors(i)

SpecAuthors == InitEmpty /\ [][NextAuthors]_vars

(***************************************************************************)
(* The orders backend, src/main.py.  Its classes declare User.orders with  *)
(* backref="user" while Order declares a relationship named user itself:   *)
(* SQLAlchemy configures the mappers at the first query and refuses the    *)
(* backref, so the first db.query of every handler raises.                 *)
(***************************************************************************)
\* The relationship() declarations of lines 19, 28, 29 and 37.
Relationships ==
    {[mapper |-> "User", key |-> "orders", target |-> "Order",
      backref |-> "user", back_populates |-> None],
     [mapper |-> "Order", key |-> "user", target |-> "User",
      backref |-> None, back_populates |-> "orders"],
     [mapper |-> "Order", key |-> "product", target |-> "Product",
      backref |-> None, back_populates |-> "orders"],
     [mapper |-> "Product", key |-> "orders", target |-> "Order",
      backref |-> None, back_populates |-> "product"]}

\* sqlalchemy.orm.configure_mappers, run by the first db.query: a backref
\* whose name is a property of the target mapper is an ArgumentError (and
\* InvalidRequestError at every later attempt).
configure_mappers ==
    IF \E r \in Relationships :
            /\ r.backref # None
            /\ r.back_populates = None
            /\ \E p \in Relationships : p.mapper = r.target /\ p.key = r.backref
    THEN Raised("ArgumentError")
    ELSE Returned(Garbage)

MainNames == {"u1", "u2"}

MainEmails == {"u1@x", "u2@x"}

ProductNames == {"p1", "p2"}

Prices == {1}

Quantities == {1}

MainIds == 1..MaxMainId

\* What the handlers of main.py leave alone besides the tables they name.
outside_main == <<coursework, authors>>

MainUsersById(user_id) == {u \in main_users : u.id = user_id}

ProductsById(product_id) == {p \in products : p.id = product_id}

OrdersById(order_id) == {o \in orders : o.id = order_id}

\* POST /users
main_create_user(name, email) ==
    /\ NextId(main_users) <= MaxMainId
    /\ IF configure_mappers.raised # None
       THEN /\ resp' = ServerError("main_create_user")
            /\ UNCHANGED main_users
       ELSE IF Found({u \in main_users : u.name = name})
       THEN /\ resp' = Raise("main_create_user",
                               HTTPException(400, "Username already exists"))
            /\ UNCHANGED main_users
       ELSE LET new_user == [id |-> NextId(main_users), name |-> name, email |-> email]
            IN /\ main_users' = main_users \cup {new_user}
               /\ resp' = OK("main_create_user", RecordBody(new_user))
    /\ UNCHANGED <<outside_main, products, orders>>

\* PUT /users/{user_id}
main_update_user(user_id, name, email) ==
    /\ IF configure_mappers.raised # None
       THEN /\ resp' = ServerError("main_update_user")
            /\ UNCHANGED main_users
       ELSE IF ~Found(MainUsersById(user_id))
       THEN /\ resp' = Raise("main_update_user", HTTPException(404, "User not found"))
            /\ UNCHANGED main_users
       ELSE IF Found({u \in main_users : u.name = name /\ u.id # user_id})
       THEN /\ resp' = Raise("main_update_user",
                               HTTPException(400, "Username already exists"))
            /\ UNCHANGED main_users
       ELSE IF Found({u \in main_users : u.email = email /\ u.id # user_id})
       THEN /\ resp' = Raise("main_update_user",
                               HTTPException(400, "Email already exists"))
            /\ UNCHANGED main_users
       ELSE LET put_user == First(MainUsersById(user_id))
                updated == [put_user EXCEPT !.name = name, !.email = email]
            IN /\ main_users' = (main_users \ {put_user}) \cup {updated}
               /\ resp' = OK("main_update_user", RecordBody(updated))
    /\ UNCHANGED <<outside_main, products, orders>>

\* DELETE /users/{user_id}: cascade="all, delete" deletes the user's orders.
main_delete_users(user_id) ==
    /\ IF configure_mappers.raised # None
       THEN /\ resp' = ServerError("main_delete_users")
            /\ UNCHANGED <<main_users, orders>>
       ELSE IF ~Found(MainUsersById(user_id))
       THEN /\ resp' = Raise("main_delete_users", HTTPException(404, "User not found"))
            /\ UNCHANGED <<main_users, orders>>
       ELSE /\ main_users' = main_users \ MainUsersById(user_id)
            /\ orders' = {o \in orders : o.user_id # user_id}
            /\ resp' = OK("main_delete_users", NoBody)
    /\ UNCHANGED <<outside_main, products>>

\* POST /products
create_product(name, price) ==
    /\ NextId(products) <= MaxMainId
    /\ IF configure_mappers.raised # None
       THEN /\ resp' = ServerError("create_product")
            /\ UNCHANGED products
       ELSE IF Found({x \in products : x.name = name})
       THEN /\ resp' = Raise("create_product",
                               HTTPException(400, "Product name already exists"))
            /\ UNCHANGED products
       ELSE LET new_product == [id |-> NextId(products), name |-> name, price |-> price]
            IN /\ products' = products \cup {new_product}
               /\ resp' = OK("create_product", RecordBody(new_product))
    /\ UNCHANGED <<outside_main, main_users, orders>>

\* PUT /products/{product_id}
update_product(product_id, name, price) ==
    /\ IF configure_mappers.raised # None
       THEN /\ resp' = ServerError("update_product")
            /\ UNCHANGED products
       ELSE IF ~Found(ProductsById(product_id))
       THEN /\ resp' = Raise("update_product", HTTPException(404, "Product not found"))
            /\ UNCHANGED products
       ELSE IF Found({x \in products : x.name = name /\ x.id # product_id})
       THEN /\ resp' = Raise("update_product",
                               HTTPException(400, "Product name already exists"))
            /\ UNCHANGED products
       ELSE LET put_product == First(ProductsById(product_id))
                updated == [put_product EXCEPT !.name = name, !.price = price]
            IN /\ products' = (products \ {put_product}) \cup {updated}
               /\ resp' = OK("update_product", RecordBody(updated))
    /\ UNCHANGED <<outside_main, main_users, orders>>

\* DELETE /products/{product_id}: cascade="all, delete" deletes its orders.
delete_products(product_id) ==
    /\ IF configure_mappers.raised # None
       THEN /\ resp' = ServerError("delete_products")
            /\ UNCHANGED <<products, orders>>
       ELSE IF ~Found(ProductsById(product_id))
       THEN /\ resp' = Raise("delete_products", HTTPException(404, "Product not found"))
            /\ UNCHANGED <<products, orders>>
       ELSE /\ products' = products \ ProductsById(product_id)
            /\ orders' = {o \in orders : o.product_id # product_id}
            /\ resp' = OK("delete_products", NoBody)
    /\ UNCHANGED <<outside_main, main_users>>

\* The lookups of create_order and update_order: the exception they raise.
order_check(user_id, product_id) ==
    IF ~Found(MainUsersById(user_id))
    THEN HTTPException(404, "User not found")
    ELSE IF ~Found(ProductsById(product_id))
    THEN HTTPException(404, "Product not found")
    ELSE NoException

\* POST /orders
create_order(user_id, product_id, quantity) ==
    /\ NextId(orders) <= MaxMainId
    /\ IF configure_mappers.raised # None
       THEN /\ resp' = ServerError("create_order")
            /\ UNCHANGED orders
       ELSE IF order_check(user_id, product_id).status # 0
       THEN /\ resp' = Raise("create_order", order_check(user_id, product_id))
            /\ UNCHANGED orders
       ELSE LET new_order == [id |-> NextId(orders), user_id |-> user_id,
                              product_id |-> product_id, quantity |-> quantity]
            IN /\ orders' = orders \cup {new_order}
               /\ resp' = OK("create_order", RecordBody(new_order))
    /\ UNCHANGED <<outside_main, main_users, products>>

\* PUT /orders/{order_id}
update_order(order_id, user_id, product_id, quantity) ==
    /\ IF configure_mappers.raised # None
       THEN /\ resp' = ServerError("update_order")
            /\ UNCHANGED orders
       ELSE IF ~Found(OrdersById(order_id))
       THEN /\ resp' = Raise("update_order", HTTPException(404, "Order not found"))
            /\ UNCHANGED orders
       ELSE IF order_check(user_id, product_id).status # 0
       THEN /\ resp' = Raise("update_order", order_check(user_id, product_id))
            /\ UNCHANGED orders
       ELSE IF Found({o \in orders : /\ o.user_id = user_id
                                     /\ o.product_id = product_id
                                     /\ o.id # order_id})
       THEN /\ resp' = Raise("update_order", HTTPException(400, "Order already exists"))
            /\ UNCHANGED orders
       ELSE LET put_order == First(OrdersById(order_id))
                updated == [put_order EXCEPT !.user_id = user_id,
                                             !.product_id = product_id,
                                             !.quantity = quantity]
            IN /\ orders' = (orders \ {put_order}) \cup {updated}
               /\ resp' = OK("update_order", RecordBody(updated))
    /\ UNCHANGED <<outside_main, main_users, products>>

\* DELETE /orders/{order_id}
delete_orders(order_id) ==
    /\ IF configure_mappers.raised # None
       THEN /\ resp' = ServerError("delete_orders")
            /\ UNCHANGED orders
       ELSE IF ~Found(OrdersById(order_id))
       THEN /\ resp' = Raise("delete_orders", HTTPException(404, "Order not found"))
            /\ UNCHANGED orders
       ELSE /\ orders' = orders \ OrdersById(order_id)
            /\ resp' = OK("delete_orders", NoBody)
    /\ UNCHANGED <<outside_main, main_users, products>>

\* The rows database.db may hold when the process starts.
MainUserRows ==
    {[id |-> 1, name |-> "u1", email |-> "u1@x"],
     [id |-> 2, name |-> "u2", email |-> "u2@x"]}

ProductRows ==
    {[id |-> 1, name |-> "p1", price |-> 1],
     [id |-> 2, name |-> "p2", price |-> 1]}

\* The orders backend started on a file whose orders refer to rows of it.
InitOrders ==
    /\ users = {}
    /\ courses = {}
    /\ enrollments = EmptyBag
    /\ ledger = {}
    /\ inflight = EmptyBag
    /\ now = 0
    /\ ticks = 0
    /\ resp = Response("none", 0, None, NoBody)
    /\ deleted_ids = {}
    /\ authors = {}
    /\ main_users \in SUBSET MainUserRows
    /\ products \in SUBSET ProductRows
    /\ orders \in SUBSET {[id |-> 1, user_id |-> u.id, product_id |-> x.id,
                             quantity |-> 1] : u \in main_users, x \in products}
    /\ \A a, b \in orders : a.id = b.id => a = b

NextOrders ==
    \/ \E n \in MainNames, e \in MainEmails : main_create_user(n, e)
    \/ \E i \in MainIds, n \in MainNames, e \in MainEmails : main_update_user(i, n, e)
    \/ \E i \in MainIds : main_delete_users(i)
    \/ \E n \in ProductNames, x \in Prices : create_product(n, x)
    \/ \E i \in MainIds, n \in ProductNames, x \in Prices : update_product(i, n, x)
    \/ \E i \in MainIds : delete_products(i)
    \/ \E u \in MainIds, x \in MainIds, q \in Quantities : create_order(u, x, q)
    \/ \E o \in MainIds, u \in MainIds, x \in MainIds, q \in Quantities :
            update_order(o, u, x, q)
    \/ \E o \in MainIds : delete_orders(o)

SpecOrders == InitOrders /\ [][NextOrders]_vars

(***************************************************************************)
(* Claims.                                                                 *)
(***************************************************************************)
\* A rotate request that gets as far as issuing: the token decodes with a
\* subject, its ledger row is present and its subject is an identity.
Rotatable(token) ==
    /\ refresh_decode(token).status = 0
    /\ Found(TokenRows(token))
    /\ Found(UsersByName(token.sub))

\* C1: rotation is single-use.  A rotate request with a refresh token whose
\* ledger row and identity are present succeeds: it answers 200 with a new
\* access and refresh token, the new refresh token has a ledger row, and
\* the presented token has none any more, so that every later rotate
\* request with it is answered 404 "Token not found.".
C1_RotationSingleUse ==
    [][\A t \in Tokens :
        (refresh(t) /\ Rotatable(t)) =>
            /\ resp'.status = 200
            /\ resp'.body.refresh_token # t
            /\ Found({r \in ledger' : r.token = resp'.body.refresh_token})
            /\ ~Found({r \in ledger' : r.token = t})]_vars

\* C2: a login with the username and the password of an identity answers
\* 200 with an access and a refresh token and adds to the ledger exactly
\* one row: its token is the refresh token returned, its user_id and
\* user_role are the identity's.
C2_LoginIssuesPairAndRow ==
    [][\A u \in Usernames, p \in Passwords :
        (login(u, p) /\ ~login_user_fails(u, p)) =>
            /\ resp'.status = 200
            /\ resp'.body.access_token.sig = "ok"
            /\ resp'.body.refresh_token.sig = "ok"
            /\ \E row \in ledger' \ ledger :
                /\ ledger' = ledger \cup {row}
                /\ row.token = resp'.body.refresh_token
                /\ row.user_id = First(UsersByName(u)).id
                /\ row.user_role = First(UsersByName(u)).role]_vars

\* No two identities share a username, and no two share an email.
UsersUnique ==
    \A a, b \in users :
        a # b => (a.username # b.username /\ a.email # b.email)

\* C3: usernames and emails of the registered identities are unique, and a
\* registration whose username or whose email is that of a registered
\* identity is answered 400 and leaves table users as it was.
C3_DuplicateRegistrationRejected ==
    /\ []UsersUnique
    /\ [][\A u \in Usernames, e \in Emails, p \in Passwords :
            (/\ register(u, e, p)
             /\ (Found(UsersByName(u)) \/ Found(UsersByEmail(e)))) =>
                (resp'.status = 400 /\ users' = users)]_vars

\* A registration was rejected for its email alone.
C3_Witness ==
    /\ resp.op = "register"
    /\ resp.status = 400
    /\ resp.detail = "Email already in use."
    /\ users # {}

\* C4: whatever the interleaving of register, update_user and delete_user
\* requests, two registrations that both passed their checks before either
\* committed included, no two identities share a username and no two share
\* an email.
C4_UsersUniqueUnderRaces == UsersUnique

\* A registration that passed its checks is still to commit, and an
\* identity with its username or its email has been stored meanwhile.
C4_Witness ==
    \E r \in Held :
        /\ r.op = "register"
        /\ (Found(UsersByName(r.username)) \/ Found(UsersByEmail(r.email)))

\* C5: the authorization gate.  For every admin-gated operation, a caller
\* whose token resolves to an identity whose role is not admin is answered
\* 403 and the store is unchanged; a caller whose token resolves to an
\* identity whose role is admin is not answered 403 and the operation is
\* carried out: a read of what exists answers 200, a valid update, delete,
\* create, enroll or unenroll answers 200 and the store shows it.
C5_GatedOp ==
    {"read_users", "read_user", "update_user", "delete_users", "create_course",
     "update_course", "delete_courses", "add_user_to_course",
     "delete_user_from_course"}

C5_AdminCarriedOut(t) ==
    /\ (resp'.op = "read_users" /\ read_users(t)) => resp'.status = 200
    /\ \A i \in UserIds :
        /\ (resp'.op = "read_user" /\ Found(UsersById(i)) /\ read_user(t, i)) =>
                (resp'.status = 200 /\ resp'.body.id = i)
        /\ (resp'.op = "delete_users" /\ Found(UsersById(i)) /\ delete_users(t, i)) =>
                (resp'.status = 200 /\ ~\E u \in users' : u.id = i)
        /\ \A d \in UpdateUserData :
            (/\ resp'.op = "update_user"
             /\ Found(UsersById(i))
             /\ \A u \in users : u.id # i =>
                    (u.username # d.username /\ u.email # d.email)
             /\ update_user(t, i, d)) =>
                (/\ resp'.status = 200
                 /\ \E u \in users' :
                        /\ u.id = i
                        /\ d.username # None => u.username = d.username
                        /\ d.email # None => u.email = d.email
                        /\ d.password # None => verify_password(d.password, u.hashed_password))
        /\ \A ti \in Titles :
            (/\ resp'.op = "create_course"
             /\ Found(UsersById(i))
             /\ ~\E c \in courses : c.title = ti /\ c.teacher_id = i
             /\ create_course(t, ti, i)) =>
                (/\ resp'.status = 200
                 /\ \E c \in courses' \ courses : c.title = ti /\ c.teacher_id = i)
        /\ \A c \in CourseIds :
            /\ (/\ resp'.op = "add_user_to_course"
                /\ Found(CoursesById(c)) /\ Found(UsersById(i))
                /\ ~BagIn(<<i, c>>, enrollments)
                /\ add_user_to_course(t, c, i)) =>
                    (resp'.status = 200 /\ BagIn(<<i, c>>, enrollments'))
            /\ (/\ resp'.op = "delete_user_from_course"
                /\ Found(CoursesById(c)) /\ Found(UsersById(i))
                /\ BagIn(<<i, c>>, enrollments)
                /\ delete_user_from_course(t, c, i)) =>
                    (resp'.status = 200 /\ ~BagIn(<<i, c>>, enrollments'))
    /\ \A c \in CourseIds :
        /\ (resp'.op = "delete_courses" /\ Found(CoursesById(c)) /\ delete_courses(t, c)) =>
                (resp'.status = 200 /\ ~\E x \in courses' : x.id = c)
        /\ \A ti \in Titles :
            (resp'.op = "update_course" /\ Found(CoursesById(c)) /\ update_course(t, c, ti)) =>
                (resp'.status = 200 /\ \E x \in courses' : x.id = c /\ x.title = ti)

\* Some admin-gated request with token t is what the step answers.
C5_GatedStep(t) ==
    CASE resp'.op = "read_users" -> read_users(t)
      [] resp'.op = "read_user" -> \E i \in UserIds : read_user(t, i)
      [] resp'.op = "delete_users" -> \E i \in UserIds : delete_users(t, i)
      [] resp'.op = "update_user" ->
            \E i \in UserIds, d \in UpdateUserData : update_user(t, i, d)
      [] resp'.op = "create_course" ->
            \E i \in UserIds, ti \in Titles : create_course(t, ti, i)
      [] resp'.op = "update_course" ->
            \E c \in CourseIds, ti \in Titles \cup {None} : update_course(t, c, ti)
      [] resp'.op = "delete_courses" -> \E c \in CourseIds : delete_courses(t, c)
      [] resp'.op = "add_user_to_course" ->
            \E c \in CourseIds, i \in UserIds : add_user_to_course(t, c, i)
      [] resp'.op = "delete_user_from_course" ->
            \E c \in CourseIds, i \in UserIds : delete_user_from_course(t, c, i)
      [] OTHER -> FALSE

C5_AuthorizationGate ==
    [][\A t \in BearerTokens :
        LET caller == get_current_user(t) IN
        (resp'.op \in C5_GatedOp /\ caller.exc.status = 0) =>
            IF caller.user.role # "admin"
            THEN (resp'.status # 403 \/ store' # store) => ~C5_GatedStep(t)
            ELSE /\ resp'.status = 403 => ~C5_GatedStep(t)
                 /\ C5_AdminCarriedOut(t)]_vars

\* A caller that is a registered student asked to enroll someone in a course
\* that exists, and was refused.
C5_Witness ==
    /\ resp.op = "add_user_to_course"
    /\ resp.status = 403
    /\ courses # {}
    /\ \E u \in users : u.role = "student"

\* C6: enrolling an identity in a course it is already enrolled in is
\* answered 400 (Conflict) and leaves table enrollments as it was.
C6_EnrollTwiceIsConflict ==
    [][\A t \in BearerTokens, c \in CourseIds, i \in UserIds :
        (/\ resp'.op = "add_user_to_course"
         /\ add_user_to_course(t, c, i)
         /\ require_admin(t).exc.status = 0
         /\ Found(CoursesById(c)) /\ Found(UsersById(i))
         /\ BagIn(<<i, c>>, enrollments)) =>
            (resp'.status = 400 /\ enrollments' = enrollments)]_vars

\* C7: unenrolling an identity from a course it is not enrolled in, both
\* existing, is answered 404 (NotFound) and leaves table enrollments as it
\* was.
C7_UnenrollAbsentIsNotFound ==
    [][\A t \in BearerTokens, c \in CourseIds, i \in UserIds :
        (/\ resp'.op = "delete_user_from_course"
         /\ delete_user_from_course(t, c, i)
         /\ require_admin(t).exc.status = 0
         /\ Found(CoursesById(c)) /\ Found(UsersById(i))
         /\ ~BagIn(<<i, c>>, enrollments)) =>
            (resp'.status = 404 /\ enrollments' = enrollments)]_vars

\* No row of table enrollments is there twice.
EnrollmentsUnique ==
    \A e \in BagToSet(enrollments) : CopiesIn(e, enrollments) = 1

\* C8: whatever the interleaving of enroll and unenroll requests, a pair
\* (identity, course) is in table enrollments at most once; an enroll
\* answered 200 has added exactly its pair, an unenroll answered 200 has
\* removed exactly its pair, and every other row is as it was.
C8_EnrollmentPairsUnique ==
    /\ []EnrollmentsUnique
    /\ [][\A r \in Held :
            LET pair == <<r.user_id, r.course_id>> IN
            /\ (add_user_to_course_commit(r) /\ resp'.status = 200) =>
                    /\ ~BagIn(pair, enrollments)
                    /\ enrollments' = enrollments (+) SetToBag({pair})
            /\ (delete_user_from_course_commit(r) /\ resp'.status = 200) =>
                    /\ BagIn(pair, enrollments)
                    /\ ~BagIn(pair, enrollments')
                    /\ enrollments' (+) SetToBag({pair}) = enrollments]_vars

\* An enroll request that passed its checks is still to commit, and its
\* pair has been stored meanwhile by another.
C8_Witness ==
    \E r \in Held :
        /\ r.op = "add_user_to_course"
        /\ BagIn(<<r.user_id, r.course_id>>, enrollments)

\* C9: a rotate request whose token fails signature verification, is
\* expired, is no token at all or has no subject is answered 401
\* (InvalidToken) and leaves the ledger as it was.
C9_RotateInvalidTokenIs401 ==
    [][\A t \in Tokens :
        (/\ refresh(t)
         /\ (jwt_decode(t, now).raised = JWTError \/ t.sub = None)) =>
            (resp'.status = 401 /\ ledger' = ledger)]_vars

\* C10: session resolution of a bearer token is answered 401 when the
\* signature does not verify, the token is expired or it has no subject;
\* 404 when the subject names no identity; otherwise it gives the identity
\* whose username is the subject; the store is unchanged in every case.
C10_SessionResolution ==
    [][\A t \in Tokens :
        get_me(t) =>
            LET invalid == jwt_decode(t, now).raised = JWTError \/ t.sub = None IN
            /\ invalid => resp'.status = 401
            /\ (~invalid /\ ~Found(UsersByName(t.sub))) => resp'.status = 404
            /\ (~invalid /\ Found(UsersByName(t.sub))) =>
                    /\ resp'.status = 200
                    /\ \E u \in users : u.username = t.sub /\ u.id = resp'.body.id
            /\ store' = store]_vars

TokenNotFound ==
    /\ resp'.status = 404
    /\ resp'.detail = "Token not found."
    /\ resp'.body = NoBody
    /\ ledger' = ledger

\* C12 as stated: a rotate request with any token that carries a signature
\* made with the key, has not expired and has no ledger row holding exactly
\* it is answered TokenNotFound, whether or not its subject is an identity,
\* returns no token and leaves the ledger as it was.
C12_LedgerRowSoleAuthority ==
    [][\A t \in Tokens :
        (/\ refresh(t)
         /\ jwt_decode(t, now).raised = None
         /\ ~\E r \in ledger : r.token = t) => TokenNotFound]_vars

\* C12 as amended: the same of the tokens whose payload carries a subject.
C12_LedgerRowSoleAuthoritySubject ==
    [][\A t \in Tokens :
        (/\ refresh(t)
         /\ jwt_decode(t, now).raised = None
         /\ t.sub # None
         /\ ~\E r \in ledger : r.token = t) => TokenNotFound]_vars

\* A rotate request was answered "Token not found." on a store in which no
\* token's subject is an identity, other rows being in the ledger.
C12_Witness ==
    /\ resp.op = "refresh"
    /\ resp.status = 404
    /\ resp.detail = "Token not found."
    /\ \A t \in Tokens : ~Found(UsersByName(t.sub))
    /\ ledger # {}

C14_ExpiryNeverEnforced ==
    /\ [][\A row \in ledger : row.expires_at < now => row \in ledger']_vars
    /\ [][\A t \in Tokens :
            (/\ refresh(t)
             /\ \E row \in ledger : row.token = t /\ row.expires_at < now
             /\ Found(UsersByName(t.sub))) => resp'.status = 200]_vars

\* C14 as amended: no step removes a ledger row whose expires_at has
\* passed, and a rotate request with a token whose own expiry time is
\* earlier than the current time is answered 400 "Invalid token.", returns
\* no token and leaves the ledger, the token's row included, as it was.
C14_ExpiredTokenRejected ==
    /\ [][\A row \in ledger : row.expires_at < now => row \in ledger']_vars
    /\ [][\A t \in Tokens :
            (refresh(t) /\ t.sig = "ok" /\ t.exp < now) =>
                /\ resp' = Raise("refresh", HTTPException(400, "Invalid token."))
                /\ ledger' = ledger]_vars

\* A rotate request was answered "Invalid token." at a time when every
\* token with a ledger row has expired, the row of an identity's token
\* being in the ledger.
C14_Witness ==
    /\ resp.op = "refresh"
    /\ resp.status = 400
    /\ \A t \in Tokens : Found({r \in ledger : r.token = t}) => t.exp < now
    /\ \E row \in ledger :
        /\ row.expires_at < now
        /\ Found(UsersByName(row.token.sub))

\* C15: in the authors backend no two authors share an email, and every
\* create or update request that would give an author the email of a
\* different author is answered 400 and leaves table authors as it was.
C15_AuthorsEmailUnique ==
    /\ [](\A a, b \in authors : a # b => a.email # b.email)
    /\ [][\A n \in AuthorNames, e \in AuthorEmails :
            /\ (create_authors(n, e) /\ Found(AuthorsByEmail(e))) =>
                    (resp'.status = 400 /\ authors' = authors)
            /\ \A i \in AuthorIds :
                (/\ update_author(i, n, e)
                 /\ Found(AuthorsById(i))
                 /\ \E a \in authors : a.id # i /\ a.email = e) =>
                        (resp'.status = 400 /\ authors' = authors)]_vars

\* C16: in the orders backend every order's user_id is the id of a user
\* and its product_id the id of a product; create_order and update_order
\* answer 404 and leave the store as it was when the user or the product
\* is missing; deleting a user or a product deletes the orders that refer
\* to it.
C16_OrdersReferentialIntegrity ==
    /\ [](\A o \in orders :
            Found(MainUsersById(o.user_id)) /\ Found(ProductsById(o.product_id)))
    /\ [][\A u \in MainIds, x \in MainIds, q \in Quantities :
            /\ (create_order(u, x, q) /\ order_check(u, x).status # 0) =>
                    (/\ resp'.status = 404
                     /\ UNCHANGED <<main_users, products, orders>>)
            /\ \A o \in MainIds :
                (/\ update_order(o, u, x, q)
                 /\ Found(OrdersById(o))
                 /\ order_check(u, x).status # 0) =>
                    (/\ resp'.status = 404
                     /\ UNCHANGED <<main_users, products, orders>>)]_vars
    /\ [][\A i \in MainIds :
            /\ (main_delete_users(i) /\ Found(MainUsersById(i))) =>
                    (/\ ~Found({u \in main_users' : u.id = i})
                     /\ ~\E o \in orders' : o.user_id = i)
            /\ (delete_products(i) /\ Found(ProductsById(i))) =>
                    (/\ ~Found({x \in products' : x.id = i})
                     /\ ~\E o \in orders' : o.product_id = i)]_vars

NoAdmin == \A u \in users : u.role # "admin"

\* C17: a registration stores role student whatever role its body carries,
\* and no step changes the role of an identity; so a store with no admin
\* identity stays one, and on such a store every admin-gated request fails
\* and leaves the store as it was.
C17_NoAdminReachable ==
    /\ [][\A user \in CreateUser :
            (resp'.op = "register" /\ resp'.status = 200 /\ register_request(user)) =>
                \E u \in users' \ users :
                    u.username = user.username /\ u.role = "student"]_vars
    /\ [][\A u \in users, v \in users' : u.id = v.id => u.role = v.role]_vars
    /\ [][NoAdmin => NoAdmin']_vars
    /\ [][(NoAdmin /\ resp'.op \in C5_GatedOp) =>
            (resp'.status \in {400, 401, 403, 404} /\ store' = store)]_vars

\* On a store with no admin, an identity registered under the username the
\* admin tokens name, an admin-gated request was answered 403.
C17_Witness ==
    /\ NoAdmin
    /\ Found(UsersByName("admin"))
    /\ resp.op \in C5_GatedOp
    /\ resp.status = 403

\* The tokens issued to an identity.
IssuedTo(user) == {t \in IssuedTokens : t.sub = user.username}

\* C18: once an identity is deleted, the tokens issued to it are unusable
\* in every later state, also when another identity has taken its
\* username: resolving one fails, with "User not found." while the token
\* has not expired, and a rotate request that finds the token's ledger row
\* fails for want of the identity.
C18_DeletedIdentityTokensDead ==
    \A s \in Seeds :
        s.id \in deleted_ids =>
            \A t \in IssuedTo(s) :
                /\ get_current_user(t).exc.status # 0
                /\ jwt_decode(t, now).raised = None =>
                        get_current_user(t).exc.status = 404
                /\ ~Rotatable(t)

\* The ledger rows descended from a token: those of the tokens issued in
\* its place.
Descended(token) ==
    {row \in ledger : row.token.sub = token.sub /\ row.token # token}

\* C19: of the rotate requests that present the same refresh token, however
\* they interleave, at most one succeeds: a request that is answered with a
\* new pair is the one that deletes the token's ledger row; and the ledger
\* never holds more than one row descended from the token.
C19_ConcurrentRotatesOneWinner ==
    /\ [][\A r \in Held :
            (r.op = "refresh" /\ r.stage = "saved" /\ refresh_resume(r)) =>
                (r.db_token \in ledger /\ r.db_token \notin ledger')]_vars
    /\ [](\A t \in IssuedTokens :
            t.type = "refresh" => Cardinality(Descended(t)) <= 1)

\* Of two rotate requests that presented the same token and both read its
\* ledger row, one has gone on and been answered, the other is still to go:
\* the row and the identity are there.
C19_Witness ==
    /\ resp.op = "refresh"
    /\ resp.status = 500
    /\ \E r \in Held :
            /\ r.op = "refresh"
            /\ r.stage = "found"
            /\ CopiesIn(r, inflight) = 1
            /\ r.db_token \in ledger
            /\ Found(UsersByName(r.token.sub))

=============================================================================
